---- MODULE Spec2Model ----
(***************************************************************************)
(* A model of noobcontroller (src/src/main.rs): the Pro Controller         *)
(* protocol engine.  The transport (hidapi) is the environment: every      *)
(* write and every read has a nondeterministic outcome.  Byte arrays are   *)
(* functions over 0..n-1, indexed as in the source.                        *)
(***************************************************************************)
EXTENDS Integers, Sequences, FiniteSets, TLC

(* ------------------------------------------------------------------ *)
(* Machine arithmetic on u8 / u16                                      *)
(* ------------------------------------------------------------------ *)
RECURSIVE BitAnd(_, _)
BitAnd(a, b) ==
    IF a = 0 \/ b = 0 THEN 0
    ELSE (a % 2) * (b % 2) + 2 * BitAnd(a \div 2, b \div 2)

RECURSIVE BitOr(_, _)
BitOr(a, b) ==
    IF a = 0 THEN b
    ELSE IF b = 0 THEN a
    ELSE (IF (a % 2) + (b % 2) > 0 THEN 1 ELSE 0) + 2 * BitOr(a \div 2, b \div 2)

Shl16(x, n) == (x * (2 ^ n)) % 65536
Shr(x, n) == x \div (2 ^ n)

Zeros(n) == [i \in 0..(n - 1) |-> 0]
FromSeq(s) == [i \in 0..(Len(s) - 1) |-> s[i + 1]]
Size(a) == Cardinality(DOMAIN a)
Slice(a, lo, hi) == [i \in 0..(hi - lo - 1) |-> a[lo + i]]

(* ------------------------------------------------------------------ *)
(* Program constants                                                   *)
(* ------------------------------------------------------------------ *)
REPORT_LEN == 48
MaxTries == 10
MaxSpiSize == 29
SpiDataOffset == 20
VoidRecvLen == 16
default_buf == <<0, 1, 64, 64, 0, 1, 64, 64>>

(* ------------------------------------------------------------------ *)
(* The device side of the transport                                    *)
(* ------------------------------------------------------------------ *)
ErrCodes == {"hid_error_a", "hid_error_b"}
Patterns == {"blank", "real"}

\* Byte j of the data area of a reply, for each device memory pattern:
\* "blank" is unwritten flash (0xFF and 0x00 only), "real" is written data
\* that also holds a 0xFF and a 0x00 byte.
PatternByte(p, j) ==
    IF p = "blank" THEN (IF j % 2 = 0 THEN 255 ELSE 0)
    ELSE CASE j = 0 -> 255
           [] j = 2 -> 0
           [] OTHER -> (37 * j + 91) % 256

\* Byte i of an input report [b0, b14, pat] sent by the device.
FrameByte(f, i) ==
    CASE i = 0 -> f.b0
      [] i = 14 -> f.b14
      [] i >= SpiDataOffset -> PatternByte(f.pat, i - SpiDataOffset)
      [] OTHER -> 0

\* The reports the device may answer to subcommand s with; only the answers
\* to a flash read (0x10) carry flash data.
Replies(s) ==
    [b0 : {33, 48}, b14 : {s, 0}, pat : IF s = 16 THEN Patterns ELSE {"blank"}]

ProbeReplies == {129, 48}

StickSamples == {<<0, 0, 0>>, <<255, 15, 128>>, <<52, 18, 171>>}

(* ------------------------------------------------------------------ *)
(* State                                                               *)
(* ------------------------------------------------------------------ *)
VARIABLES
    pc,             \* position in main / attach
    hid,            \* the transport handle held by the controller
    global_count,   \* ProController.global_count
    lstick_cal, rstick_cal, ldeadzone, rdeadzone,
    scState, sc, send, recv, tries, result,     \* the running subcommand call
    spiState, spiFrom, spiSize, spiRes,         \* the running read_spi call
    side, buf_,                                 \* read_stick_calibration locals
    hsStep, hsBuf,                              \* handshake position and buffer
    hsReads,        \* the handshake's discarded timed reads so far
    lstick_raw, rstick_raw,                     \* main loop: data[6..8], data[9..11]
    lstick_precal, rstick_precal,               \* main loop locals
    lstick, rstick,                             \* main loop: center_sticks results
    attachResult,   \* what attach returned to main
    calibrated,     \* number of completed calibrate() calls
    read, buf0,     \* attach locals: the probe read's result and buf[0]
    wire,           \* transport calls since (and including) the latest probe
    lastRead,       \* what the latest timed read of the exchange delivered
    prefixMiss      \* all earlier reads of the exchange delivered a report
                    \* that mismatched on both fields

calVars == <<lstick_cal, rstick_cal, ldeadzone, rdeadzone>>
subVars == <<scState, sc, send, recv, tries, result, lastRead, prefixMiss>>
spiVars == <<spiState, spiFrom, spiSize, spiRes>>
rscVars == <<side, buf_>>
hsVars == <<hsStep, hsBuf, hsReads>>
loopVars == <<lstick_raw, rstick_raw, lstick_precal, rstick_precal, lstick, rstick>>
probeVars == <<read, buf0>>
vars == <<pc, hid, global_count, calVars, subVars, spiVars, rscVars, hsVars,
          loopVars, probeVars, attachResult, calibrated, wire>>

Ok == [ok |-> TRUE, msg |-> ""]
NoRead == [kind |-> "none"]
Err(e) == [ok |-> FALSE, msg |-> e]
OkVal(v) == [ok |-> TRUE, val |-> v]

\* variant: a result that never aborts
IsErrNever(r) == FALSE
\* the `?` operator and the `if let Err(e)` tests: does the result abort?
IsErr(r) == ~r.ok

Written(data, ok) == [kind |-> "write", data |-> data, ok |-> ok]
Opened == [kind |-> "open"]

(* ------------------------------------------------------------------ *)
(* subcommand, void_subcommand                                         *)
(* ------------------------------------------------------------------ *)
\* variant: a counter without wraparound
NextCountNoWrap(c) == c + 1
\* lines 91-95: the wrapping 4-bit sequence counter
NextCount(c) == IF c = 15 THEN 0 ELSE c + 1

\* lines 84-90: the outbound frame
SubcommandFrame(count, s, snd) ==
    [i \in 0..(REPORT_LEN - 1) |->
        CASE i = 0 -> 1
          [] i = 1 -> count
          [] i \in 2..9 -> default_buf[i - 1]
          [] i = 10 -> s
          [] i \in 11..(10 + Size(snd)) -> snd[i - 11]
          [] OTHER -> 0]

\* variant: a loop that ignores the reply
KeepPollingNoMatch(t, r, s) == t < MaxTries
\* line 104: the loop goes on while this holds
KeepPolling(t, r, s) == t < MaxTries /\ r[0] # 33 /\ r[14] # s

\* variant: a strict exchange, which fails when the budget runs out unmatched
AfterLoopStrict(res, t, r, s) ==
    IF res.ok /\ t = MaxTries /\ ~(r[0] = 33 /\ r[14] = s)
    THEN [ok |-> FALSE, msg |-> "no matching reply"]
    ELSE res
\* lines 108-111: after the loop only the last read's result decides
AfterLoop(res, t, r, s) == IF ~res.ok THEN [ok |-> FALSE, msg |-> res.msg] ELSE Ok

\* hid.read_timeout into buf: the report is copied over the buffer
ReadInto(buf, f) == [i \in DOMAIN buf |-> FrameByte(f, i)]

\* entering subcommand(s, snd, recv) with a zeroed receive buffer of rlen bytes
CallSubcommand(s, snd, rlen) ==
    /\ scState' = "call"
    /\ sc' = s
    /\ send' = snd
    /\ recv' = Zeros(rlen)
    /\ tries' = 0
    /\ result' = Ok
    /\ lastRead' = NoRead
    /\ prefixMiss' = TRUE

\* lines 84-98: build the frame, advance the counter, write
SubcommandWrite ==
    /\ scState = "call"
    /\ global_count' = NextCount(global_count)
    /\ \E w \in {Ok} \cup {Err(e) : e \in ErrCodes} :
        /\ wire' = Append(wire, Written(SubcommandFrame(global_count, sc, send), w.ok))
        /\ IF IsErr(w)
           THEN scState' = "ret" /\ result' = w
           ELSE scState' = "read" /\ result' = result
    /\ UNCHANGED <<pc, hid, calVars, sc, send, recv, tries, lastRead, prefixMiss,
                   spiVars, rscVars, hsVars, loopVars, probeVars, attachResult, calibrated>>

\* lines 101-111: one timed read, the loop test, and the return after the loop
SubcommandRead ==
    /\ scState = "read"
    /\ \E o \in [kind : {"frame"}, f : Replies(sc)]
                \cup {[kind |-> "timeout"]}
                \cup [kind : {"err"}, e : ErrCodes] :
        LET r == IF o.kind = "frame" THEN ReadInto(recv, o.f) ELSE recv
            res == IF o.kind = "err" THEN Err(o.e) ELSE Ok
            t == tries + 1
        IN  /\ recv' = r
            /\ tries' = t
            /\ result' = IF KeepPolling(t, r, sc) THEN res ELSE AfterLoop(res, t, r, sc)
            /\ lastRead' = o
            /\ prefixMiss' = (prefixMiss /\ (tries = 0 \/
                                (lastRead.kind = "frame" /\ recv[0] # 33 /\ recv[14] # sc)))
            /\ scState' = IF KeepPolling(t, r, sc) THEN "read" ELSE "ret"
    /\ UNCHANGED <<pc, hid, global_count, calVars, sc, send, spiVars, rscVars,
                   hsVars, loopVars, probeVars, attachResult, calibrated, wire>>

\* leaving a finished subcommand call: its locals go out of scope; the
\* receive buffer belongs to the caller and lives on when keepRecv
SubcommandDone(keepRecv) ==
    /\ scState' = "idle"
    /\ sc' = 0
    /\ send' = Zeros(0)
    /\ recv' = IF keepRecv THEN recv ELSE Zeros(0)
    /\ tries' = 0
    /\ result' = Ok
    /\ lastRead' = NoRead
    /\ prefixMiss' = TRUE

\* attach returns Err(e) to main, which prints it and returns (lines 262-265)
AttachFails(e) ==
    /\ pc' = "failed"
    /\ attachResult' = Err(e)

(* ------------------------------------------------------------------ *)
(* attach: probe and cold boot                                         *)
(* ------------------------------------------------------------------ *)
ProbeFrame == FromSeq(<<128, 1>>)

\* variant: any probe outcome counts as acknowledged
ProbeAckAny(b) == TRUE
\* line 227: the probe was acknowledged
ProbeAck(b) == b = 129

\* variant: the probe leaves the counter alone
ProbeCountKept(c) == c
\* line 218: self.global_count = 0
ProbeCount(c) == 0

\* lines 218-221
AttachProbeWrite ==
    /\ pc = "attach"
    /\ global_count' = ProbeCount(global_count)
    /\ \E w \in {Ok} \cup {Err(e) : e \in ErrCodes} :
        /\ wire' = <<Written(ProbeFrame, w.ok)>>
        /\ IF IsErr(w)
           THEN AttachFails(w.msg)
           ELSE pc' = "probe_read" /\ attachResult' = attachResult
    /\ read' = Ok
    /\ buf0' = 0
    /\ UNCHANGED <<hid, calVars, subVars, spiVars, rscVars, hsVars, loopVars,
                   calibrated>>

\* lines 222-228 and 236: the timed probe read, then reset() or handshake()
AttachProbeRead ==
    /\ pc = "probe_read"
    /\ \E o \in [kind : {"frame"}, b0 : ProbeReplies]
                \cup {[kind |-> "timeout"]}
                \cup [kind : {"err"}, e : ErrCodes] :
        LET b == IF o.kind = "frame" THEN o.b0 ELSE buf0
            r == IF o.kind = "err" THEN Err(o.e) ELSE Ok
        IN  /\ read' = r
            /\ buf0' = b
            /\ IF IsErr(r)
               THEN /\ AttachFails(r.msg)
                    /\ UNCHANGED <<subVars, hsVars>>
               ELSE IF ~ProbeAck(b)
               THEN /\ pc' = "reset"
                    /\ CallSubcommand(6, FromSeq(<<4>>), VoidRecvLen)
                    /\ UNCHANGED <<attachResult, hsVars>>
               ELSE /\ pc' = "x80_write"
                    /\ hsStep' = 1
                    /\ hsBuf' = Zeros(64)
                    /\ hsReads' = <<>>
                    /\ UNCHANGED <<attachResult, subVars>>
    /\ UNCHANGED <<hid, global_count, calVars, spiVars, rscVars, loopVars,
                   calibrated, wire>>

\* line 228: reset()? returned
ResetReturn ==
    /\ pc = "reset"
    /\ scState = "ret"
    /\ IF IsErr(result)
       THEN AttachFails(result.msg)
       ELSE pc' = "find_device" /\ attachResult' = attachResult
    /\ SubcommandDone(FALSE)
    /\ UNCHANGED <<hid, global_count, calVars, spiVars, rscVars, hsVars, loopVars, probeVars,
                   calibrated, wire>>

\* lines 229-232 (and 40-53): sleep, reopen the device, set_report_mode(0x3f);
\* find_device panics when the device is gone
FindDevice ==
    /\ pc = "find_device"
    /\ \E found \in BOOLEAN :
        IF found
        THEN /\ hid' = "reopened"
             /\ wire' = Append(wire, Opened)
             /\ pc' = "simple_mode"
             /\ CallSubcommand(3, FromSeq(<<63>>), VoidRecvLen)
        ELSE /\ pc' = "panic"
             /\ UNCHANGED <<hid, wire, subVars>>
    /\ UNCHANGED <<global_count, calVars, spiVars, rscVars, hsVars, loopVars, probeVars,
                   attachResult, calibrated>>

\* variant: attach gives up after one cold boot
ReattachNever == "failed"
\* line 233: attach() calls itself, whatever the number of earlier attempts
Reattach == "attach"

\* lines 232-233: set_report_mode(0x3f)? returned; attach() is entered again
SimpleModeReturn ==
    /\ pc = "simple_mode"
    /\ scState = "ret"
    /\ IF IsErr(result)
       THEN AttachFails(result.msg)
       ELSE pc' = Reattach /\ attachResult' = attachResult
    /\ SubcommandDone(FALSE)
    /\ UNCHANGED <<hid, global_count, calVars, spiVars, rscVars, hsVars, loopVars, probeVars,
                   calibrated, wire>>

(* ------------------------------------------------------------------ *)
(* handshake, x80_write                                                *)
(* ------------------------------------------------------------------ *)
\* lines 135-141: the codes of the four x80_write calls
HandshakeCodes == <<2, 3, 2, 4>>

\* lines 123-127: fill in the frame and write it
X80Write ==
    /\ pc = "x80_write"
    /\ LET b == [hsBuf EXCEPT ![0] = 128, ![1] = HandshakeCodes[hsStep]]
       IN  /\ hsBuf' = b
           /\ \E w \in {Ok} \cup {Err(e) : e \in ErrCodes} :
                /\ wire' = Append(wire, Written(b, w.ok))
                /\ IF IsErr(w)
                   THEN AttachFails(w.msg)
                   ELSE pc' = "x80_read" /\ attachResult' = attachResult
    /\ UNCHANGED <<hid, global_count, calVars, subVars, spiVars, rscVars, hsStep,
                   hsReads, loopVars, probeVars, calibrated>>

\* entering read_spi(from, size)
CallReadSpi(from, size) ==
    /\ spiState' = "call"
    /\ spiFrom' = from
    /\ spiSize' = size
    /\ spiRes' = Ok

\* lines 192-193: the flash addresses of calibrate's two calls
CalAddresses(left) ==
    IF left THEN [user |-> 32786, factory |-> 24637, deadzone |-> 24710]
    ELSE [user |-> 32797, factory |-> 24646, deadzone |-> 24728]

\* line 128: the timeout of the handshake's reads, in milliseconds
X80ReadTimeout == 100
\* what the transport can answer to a timed read into an empty buffer
X80ReadOutcomes == {"data", "timeout", "err"}

\* variant: a failed read ends the handshake
X80ReadChecked(o) == o = "err"
\* line 128: `let _ =` discards the read's result
X80ReadAborts(o) == FALSE

\* lines 128-129, 135-142 and 236-237, 192, 164: the ignored timed read, then
\* the next x80_write or, after the fourth, calibrate()
X80Read ==
    /\ pc = "x80_read"
    /\ \E o \in X80ReadOutcomes :
        IF X80ReadAborts(o)
        THEN /\ AttachFails("hid_error_a")
             /\ hsReads' = Append(hsReads, [timeout |-> X80ReadTimeout, out |-> o])
             /\ UNCHANGED <<hsStep, hsBuf, spiVars, side>>
        ELSE IF hsStep < Len(HandshakeCodes)
        THEN /\ hsStep' = hsStep + 1
             /\ hsReads' = Append(hsReads, [timeout |-> X80ReadTimeout, out |-> o])
             /\ pc' = "x80_write"
             /\ UNCHANGED <<hsBuf, spiVars, side, attachResult>>
        ELSE /\ hsStep' = 0
             /\ hsBuf' = Zeros(0)
             /\ hsReads' = <<>>
             /\ pc' = "user_cal"
             /\ side' = TRUE
             /\ CallReadSpi(CalAddresses(TRUE).user, 9)
             /\ attachResult' = attachResult
    /\ UNCHANGED <<hid, global_count, calVars, subVars, buf_, loopVars, probeVars,
                   calibrated, wire>>

(* ------------------------------------------------------------------ *)
(* read_spi                                                            *)
(* ------------------------------------------------------------------ *)
\* i32::to_le_bytes
ToLeBytes(n) ==
    [k \in 0..3 |->
        IF n >= 0 THEN (n \div (256 ^ k)) % 256
        ELSE 255 - ((((-n) - 1) \div (256 ^ k)) % 256)]

\* variant: a payload with two zero bytes before the size
SpiCmdPadded(from, size) ==
    [i \in 0..6 |-> IF i < 4 THEN ToLeBytes(from)[i] ELSE IF i = 6 THEN size ELSE 0]
\* lines 149-150: the subcommand payload
SpiCmd(from, size) ==
    [i \in 0..4 |-> IF i < 4 THEN ToLeBytes(from)[i] ELSE size]

\* lines 145-152: the size check, then the exchange
ReadSpiEnter ==
    /\ spiState = "call"
    /\ IF spiSize > MaxSpiSize
       THEN /\ spiState' = "ret"
            /\ spiRes' = Err("Reading size > 0x1d")
            /\ UNCHANGED subVars
       ELSE /\ spiState' = "wait"
            /\ spiRes' = spiRes
            /\ CallSubcommand(16, SpiCmd(spiFrom, spiSize), REPORT_LEN)
    /\ UNCHANGED <<pc, hid, global_count, calVars, spiFrom, spiSize, rscVars,
                   hsVars, loopVars, probeVars, attachResult, calibrated, wire>>

\* lines 152-160: the exchange returned; slice the data out of the buffer.
\* A slice that ends past the buffer panics.
ReadSpiReturn ==
    /\ spiState = "wait"
    /\ scState = "ret"
    /\ IF IsErr(result)
       THEN /\ spiState' = "ret"
            /\ spiRes' = result
            /\ pc' = pc
       ELSE IF SpiDataOffset + spiSize > Size(recv)
       THEN /\ spiState' = "panic"
            /\ spiRes' = spiRes
            /\ pc' = "panic"
       ELSE /\ spiState' = "ret"
            /\ spiRes' = OkVal(Slice(recv, SpiDataOffset, SpiDataOffset + spiSize))
            /\ pc' = pc
    /\ SubcommandDone(TRUE)
    /\ UNCHANGED <<hid, global_count, calVars, spiFrom, spiSize, rscVars, hsVars,
                   loopVars, probeVars, attachResult, calibrated, wire>>

\* leaving a finished read_spi call whose result has been taken
ReadSpiDone ==
    /\ recv' = Zeros(0)
    /\ UNCHANGED <<scState, sc, send, tries, result, lastRead, prefixMiss>>

SpiIdle ==
    /\ spiState' = "idle"
    /\ spiFrom' = 0
    /\ spiSize' = 0
    /\ spiRes' = Ok

(* ------------------------------------------------------------------ *)
(* read_stick_calibration, calibrate                                   *)
(* ------------------------------------------------------------------ *)
\* variant: only the first byte is tested
FoundFirstByte(block) == block[0] # 255 /\ block[0] # 0
\* lines 165-173: some byte is neither 0xff nor 0x00
Found(block) == \E i \in DOMAIN block : ~(block[i] = 255 \/ block[i] = 0)

\* variant: the same order for both sticks
stick_indexes_same(left) == FromSeq(<<0, 1, 2, 3, 4, 5>>)
\* line 179
stick_indexes(left) ==
    IF left THEN FromSeq(<<0, 1, 2, 3, 4, 5>>) ELSE FromSeq(<<2, 3, 4, 5, 0, 1>>)

\* variant: the high byte is not masked to its low nibble
LowPairNoMask(lo, hi) == BitOr(Shl16(hi, 8), lo)
\* lines 180, 182, 184, 187: (u16::from(hi) << 8) & 0xF00 | u16::from(lo)
LowPair(lo, hi) == BitOr(BitAnd(Shl16(hi, 8), 3840), lo)
\* lines 181, 183, 185: (u16::from(hi) << 4) | (u16::from(lo) >> 4)
HighPair(lo, hi) == BitOr(Shl16(hi, 4), Shr(lo, 4))

\* lines 178-185: the six stores into the stick's calibration array
DecodeCal(cal, left, b) ==
    LET ix == stick_indexes(left)
    IN  [cal EXCEPT ![ix[0]] = LowPair(b[0], b[1]),
                    ![ix[1]] = HighPair(b[1], b[2]),
                    ![ix[2]] = LowPair(b[3], b[4]),
                    ![ix[3]] = HighPair(b[4], b[5]),
                    ![ix[4]] = LowPair(b[6], b[7]),
                    ![ix[5]] = HighPair(b[7], b[8])]

\* lines 178-186: decode block b into the stick of this side, read the deadzone
DecodeAndReadDeadzone(b) ==
    /\ lstick_cal' = IF side THEN DecodeCal(lstick_cal, side, b) ELSE lstick_cal
    /\ rstick_cal' = IF side THEN rstick_cal ELSE DecodeCal(rstick_cal, side, b)
    /\ pc' = "deadzone"
    /\ CallReadSpi(CalAddresses(side).deadzone, 16)

\* lines 164-186: the user block arrived
ReadStickUser ==
    /\ pc = "user_cal"
    /\ spiState = "ret"
    /\ IF IsErr(spiRes)
       THEN /\ AttachFails(spiRes.msg)
            /\ SpiIdle
            /\ UNCHANGED <<lstick_cal, rstick_cal, buf_>>
       ELSE /\ buf_' = spiRes.val
            /\ attachResult' = attachResult
            /\ IF Found(spiRes.val)
               THEN DecodeAndReadDeadzone(spiRes.val)
               ELSE /\ pc' = "factory_cal"
                    /\ CallReadSpi(CalAddresses(side).factory, 9)
                    /\ UNCHANGED <<lstick_cal, rstick_cal>>
    /\ ReadSpiDone
    /\ UNCHANGED <<hid, global_count, ldeadzone, rdeadzone, side, hsVars, loopVars, probeVars,
                   calibrated, wire>>

\* lines 176-186: the factory block arrived
ReadStickFactory ==
    /\ pc = "factory_cal"
    /\ spiState = "ret"
    /\ IF IsErr(spiRes)
       THEN /\ AttachFails(spiRes.msg)
            /\ SpiIdle
            /\ UNCHANGED <<lstick_cal, rstick_cal, buf_>>
       ELSE /\ buf_' = spiRes.val
            /\ attachResult' = attachResult
            /\ DecodeAndReadDeadzone(spiRes.val)
    /\ ReadSpiDone
    /\ UNCHANGED <<hid, global_count, ldeadzone, rdeadzone, side, hsVars, loopVars, probeVars,
                   calibrated, wire>>

\* lines 238-242: the configuration calls of attach, in order
\* variant: vibration before the motion sensor
ConfigOrderSwapped == <<"set_vibration", "set_imu", "set_player_lights", "set_report_mode">>
ConfigOrder == <<"set_imu", "set_vibration", "set_player_lights", "set_report_mode">>

\* lines 197-211 with the arguments of lines 238-242
ConfigCall(step) ==
    CASE step = "set_imu" -> [sc |-> 64, arg |-> 0]
      [] step = "set_vibration" -> [sc |-> 72, arg |-> 0]
      [] step = "set_player_lights" -> [sc |-> 48, arg |-> 8]
      [] step = "set_report_mode" -> [sc |-> 3, arg |-> 48]

CallConfig(step) ==
    CallSubcommand(ConfigCall(step).sc, FromSeq(<<ConfigCall(step).arg>>), VoidRecvLen)

\* lines 186-188, 192-194, 238: the deadzone block arrived; calibrate stores the
\* deadzone and goes on with the right stick or returns to attach
ReadStickDeadzone ==
    /\ pc = "deadzone"
    /\ spiState = "ret"
    /\ IF IsErr(spiRes)
       THEN /\ AttachFails(spiRes.msg)
            /\ SpiIdle
            /\ ReadSpiDone
            /\ UNCHANGED <<ldeadzone, rdeadzone, rscVars, calibrated>>
       ELSE LET deadzone == LowPair(spiRes.val[3], spiRes.val[4])
            IN  /\ attachResult' = attachResult
                /\ IF side
                   THEN /\ ldeadzone' = deadzone
                        /\ rdeadzone' = rdeadzone
                        /\ side' = FALSE
                        /\ buf_' = Zeros(0)
                        /\ pc' = "user_cal"
                        /\ CallReadSpi(CalAddresses(FALSE).user, 9)
                        /\ ReadSpiDone
                        /\ calibrated' = calibrated
                   ELSE /\ ldeadzone' = ldeadzone
                        /\ rdeadzone' = deadzone
                        /\ side' = TRUE
                        /\ buf_' = Zeros(0)
                        /\ calibrated' = calibrated + 1
                        /\ pc' = ConfigOrder[1]
                        /\ SpiIdle
                        /\ CallConfig(ConfigOrder[1])
    /\ UNCHANGED <<hid, global_count, lstick_cal, rstick_cal, hsVars, loopVars, probeVars, wire>>

(* ------------------------------------------------------------------ *)
(* attach: configuration; main: the streaming loop                     *)
(* ------------------------------------------------------------------ *)
ConfigSteps == {ConfigOrder[k] : k \in DOMAIN ConfigOrder}
ConfigIndex(step) == CHOOSE k \in DOMAIN ConfigOrder : ConfigOrder[k] = step

\* lines 238-243 and 262-268: a configuration subcommand returned
ConfigReturn ==
    /\ pc \in ConfigSteps
    /\ scState = "ret"
    /\ IF IsErr(result)
       THEN /\ AttachFails(result.msg)
            /\ SubcommandDone(FALSE)
       ELSE IF ConfigIndex(pc) < Len(ConfigOrder)
       THEN /\ pc' = ConfigOrder[ConfigIndex(pc) + 1]
            /\ attachResult' = attachResult
            /\ CallConfig(ConfigOrder[ConfigIndex(pc) + 1])
       ELSE /\ pc' = "stream"
            /\ attachResult' = Ok
            /\ SubcommandDone(FALSE)
    /\ UNCHANGED <<hid, global_count, calVars, spiVars, rscVars, hsVars, loopVars, probeVars,
                   calibrated, wire>>

\* lines 58-65: the calibration fields center_sticks reads
MaxAboveX(cal) == cal[0]
MaxAboveY(cal) == cal[1]
CenterX(cal) == cal[2]
CenterY(cal) == cal[3]
MaxBelowX(cal) == cal[4]
MaxBelowY(cal) == cal[5]

\* variant: the middle byte's high nibble is not masked away
PrecalNoMask(raw) ==
    FromSeq(<<BitOr(raw[1], Shl16(raw[2], 8)),
              BitOr(Shr(raw[2], 4), Shl16(raw[3], 4))>>)
\* lines 298-302, 304-308: three raw bytes to two 12-bit samples
Precal(raw) ==
    FromSeq(<<BitOr(raw[1], Shl16(BitAnd(raw[2], 15), 8)),
              BitOr(Shr(raw[2], 4), Shl16(raw[3], 4))>>)

\* f32 values: a quotient of two integers, a NaN or an infinity
F32Zero == [kind |-> "num", n |-> 0, d |-> 1]
F32NaN == [kind |-> "nan", n |-> 0, d |-> 0]
F32Inf(n) == [kind |-> "inf", n |-> IF n > 0 THEN 1 ELSE -1, d |-> 0]
\* lines 64-65: the f32 division n / d of two integral values, d >= 0
F32Div(n, d) ==
    IF d = 0
    THEN IF n = 0 THEN F32NaN ELSE F32Inf(n)
    ELSE IF n = 0 THEN F32Zero ELSE [kind |-> "num", n |-> n, d |-> d]

\* line 61: dz * dz is a u16 product: it overflows from dz = 256 on
MulOverflows(dz) == dz * dz >= 65536
\* line 61: the product a build without overflow checks computes
WrappingSquare(dz) == (dz * dz) % 65536

\* lines 55-67, on a build that does not panic at line 61; the sum of the
\* squares is not negative, so abs() leaves it alone, and every value
\* compared is an integer that f32 holds exactly or rounds monotonically
center_sticks(vals, cal, dz) ==
    LET dx == vals[0] - CenterX(cal)
        dy == vals[1] - CenterY(cal)
    IN  IF dx * dx + dy * dy < WrappingSquare(dz)
        THEN FromSeq(<<F32Zero, F32Zero>>)
        ELSE FromSeq(<<F32Div(dx, IF dx > 0 THEN MaxAboveX(cal) ELSE MaxBelowX(cal)),
                       F32Div(dy, IF dy > 0 THEN MaxAboveY(cal) ELSE MaxBelowY(cal))>>)

\* lines 270-309: one blocking telemetry read (expect panics on an error)
\* whose report carries stick bytes from the sample sets; a build with overflow
\* checks panics at line 61 when dz * dz does not fit in a u16
TelemetryFrom(lsamples, rsamples) ==
    /\ pc = "stream"
    /\ \E ok \in BOOLEAN, checked \in BOOLEAN, l \in lsamples, r \in rsamples :
        IF ok /\ ~(checked /\ (MulOverflows(ldeadzone) \/ MulOverflows(rdeadzone)))
        THEN /\ lstick_raw' = l
             /\ rstick_raw' = r
             /\ lstick_precal' = Precal(l)
             /\ rstick_precal' = Precal(r)
             /\ lstick' = center_sticks(Precal(l), lstick_cal, ldeadzone)
             /\ rstick' = center_sticks(Precal(r), rstick_cal, rdeadzone)
             /\ pc' = pc
        ELSE /\ pc' = "panic"
             /\ UNCHANGED loopVars
    /\ UNCHANGED <<hid, global_count, calVars, subVars, spiVars, rscVars, hsVars,
                   probeVars, attachResult, calibrated, wire>>

Telemetry == TelemetryFrom(StickSamples, StickSamples)

(* ------------------------------------------------------------------ *)
(* Specifications                                                      *)
(* ------------------------------------------------------------------ *)
Pending == [ok |-> TRUE, msg |-> "pending"]

\* lines 69-81 and 260-262: a fresh controller, main about to call attach
InitLocals ==
    /\ hid = "main"
    /\ lstick_cal = Zeros(6)
    /\ rstick_cal = Zeros(6)
    /\ ldeadzone = 0
    /\ rdeadzone = 0
    /\ scState = "idle"
    /\ sc = 0
    /\ send = Zeros(0)
    /\ recv = Zeros(0)
    /\ tries = 0
    /\ result = Ok
    /\ lastRead = NoRead
    /\ prefixMiss = TRUE
    /\ buf_ = Zeros(0)
    /\ hsStep = 0
    /\ hsBuf = Zeros(0)
    /\ hsReads = <<>>
    /\ lstick_raw = <<>>
    /\ rstick_raw = <<>>
    /\ lstick_precal = Zeros(0)
    /\ rstick_precal = Zeros(0)
    /\ lstick = Zeros(0)
    /\ rstick = Zeros(0)
    /\ read = Ok
    /\ buf0 = 0
    /\ attachResult = Pending
    /\ calibrated = 0
    /\ wire = <<>>

InitCommon ==
    /\ InitLocals
    /\ spiRes = Ok
    /\ side = TRUE

Init ==
    /\ InitCommon
    /\ pc = "attach"
    /\ global_count = 0
    /\ spiState = "idle"
    /\ spiFrom = 0
    /\ spiSize = 0

Next ==
    \/ AttachProbeWrite
    \/ AttachProbeRead
    \/ ResetReturn
    \/ FindDevice
    \/ SimpleModeReturn
    \/ X80Write
    \/ X80Read
    \/ SubcommandWrite
    \/ SubcommandRead
    \/ ReadSpiEnter
    \/ ReadSpiReturn
    \/ ReadStickUser
    \/ ReadStickFactory
    \/ ReadStickDeadzone
    \/ ConfigReturn
    \/ Telemetry

Spec == Init /\ [][Next]_vars

\* A transport on which every write, timed read and reopen succeeds and
\* whose probe replies never start with 0x81.
Unresponsive ==
    /\ \A k \in 1..Len(wire) : wire[k].kind = "write" => wire[k].ok
    /\ lastRead.kind # "err"
    /\ read.ok
    /\ buf0 # 129
    /\ pc # "panic"

NextRetry ==
    \/ AttachProbeWrite /\ Unresponsive'
    \/ AttachProbeRead /\ Unresponsive'
    \/ ResetReturn /\ Unresponsive'
    \/ FindDevice /\ Unresponsive'
    \/ SimpleModeReturn /\ Unresponsive'
    \/ SubcommandWrite /\ Unresponsive'
    \/ SubcommandRead /\ Unresponsive'

\* attach on such a transport; the program is sequential and each of its
\* calls returns (timed reads after 100 ms, the sleep after 6 s), so a step
\* that can be taken is taken
SpecRetry == Init /\ [][NextRetry]_vars /\ WF_vars(NextRetry)

\* The device's packing of two 12-bit values into three bytes
Pack(a, b) ==
    <<BitAnd(a, 255), BitOr(Shr(a, 8), Shl16(BitAnd(b, 15), 4)), Shr(b, 4)>>
\* 12-bit values: the boundaries of the three nibbles and mixed patterns
RoundTripValues ==
    {0, 1, 15, 16, 17, 240, 255, 256, 257, 291, 564, 1365, 2047, 2048, 2730,
     2737, 2748, 3840, 3855, 4080, 4094, 4095}
PackedSamples == {Pack(a, b) : a \in RoundTripValues, b \in RoundTripValues}
\* a nine-byte calibration block packing (a, b), (b, a), (a, b)
PackedBlock(a, b) == FromSeq(Pack(a, b) \o Pack(b, a) \o Pack(a, b))

\* The two unpacking routines on packed inputs: read_stick_calibration with a
\* user or factory block in hand, and the main loop about to read a report.
InitRoundTrip ==
    /\ InitLocals
    /\ global_count = 0
    /\ \/ /\ pc = "stream"
          /\ spiState = "idle"
          /\ spiFrom = 0
          /\ spiSize = 0
          /\ spiRes = Ok
          /\ side = TRUE
       \/ /\ pc \in {"user_cal", "factory_cal"}
          /\ spiState = "ret"
          /\ side \in BOOLEAN
          /\ spiFrom = IF pc = "user_cal" THEN CalAddresses(side).user
                       ELSE CalAddresses(side).factory
          /\ spiSize = 9
          /\ \E a \in RoundTripValues, b \in RoundTripValues :
                spiRes = OkVal(PackedBlock(a, b))

NextRoundTrip ==
    \/ ReadStickUser
    \/ ReadStickFactory
    \/ TelemetryFrom(PackedSamples, {Pack(0, 0)})

SpecRoundTrip == InitRoundTrip /\ [][NextRoundTrip]_vars

\* One call of read_spi on a controller whose counter is anywhere in 0..15.
MaxCallSize == 30
CallAddresses == {32786, 24710, 305419896, -2}

InitCall ==
    /\ InitCommon
    /\ pc = "read_spi"
    /\ spiState = "call"
    /\ \/ /\ global_count \in 0..15
          /\ spiFrom = 32786
          /\ spiSize = 9
       \/ /\ global_count = 0
          /\ spiFrom \in CallAddresses
          /\ spiSize \in 0..MaxCallSize

NextCall ==
    \/ ReadSpiEnter
    \/ SubcommandWrite
    \/ SubcommandRead
    \/ ReadSpiReturn

SpecCall == InitCall /\ [][NextCall]_vars

(* ------------------------------------------------------------------ *)
(* Properties                                                          *)
(* ------------------------------------------------------------------ *)
LastWritten == wire[Len(wire)]
ExchangeWritten == wire # <<>> /\ LastWritten.kind = "write" /\ LastWritten.ok
MatchesBoth(r, s) == r[0] = 33 /\ r[14] = s

\* C1: while fewer than 10 timed reads have been made, polling stops on a
\* reply only when its byte 0 is 0x21 and its byte 14 is the subcommand id.
C1_AcceptOnlyFullMatch ==
    (scState = "ret" /\ lastRead.kind = "frame" /\ tries < MaxTries)
        => MatchesBoth(recv, sc)

\* C2 as stated: every exchange makes 1 to 10 timed reads after its single
\* write; k-1 replies mismatching on both fields followed by a reply matching
\* both give exactly k reads, success, and the k-th reply in the buffer.
C2_ReadsEveryExchange ==
    /\ scState = "read" => tries < MaxTries
    /\ scState = "ret" => tries \in 1..MaxTries
    /\ (scState \in {"read", "ret"} /\ prefixMiss /\ lastRead.kind = "frame"
            /\ MatchesBoth(ReadInto(recv, lastRead.f), sc))
        => /\ scState = "ret"
           /\ result = Ok
           /\ recv = ReadInto(recv, lastRead.f)

\* C2 amended: an exchange whose write succeeded makes 1 to 10 timed reads (one
\* whose write failed makes none); the write is the only one of the exchange;
\* k-1 replies mismatching on both fields followed by a reply matching both
\* give exactly k reads, success, and the k-th reply in the buffer.
C2_ReadsAfterWrite ==
    /\ [](scState = "read" => (tries < MaxTries /\ ExchangeWritten))
    /\ [](scState = "ret" =>
            IF ExchangeWritten THEN tries \in 1..MaxTries ELSE tries = 0)
    /\ []((scState \in {"read", "ret"} /\ prefixMiss /\ lastRead.kind = "frame"
            /\ MatchesBoth(ReadInto(recv, lastRead.f), sc))
          => /\ scState = "ret"
             /\ result = Ok
             /\ recv = ReadInto(recv, lastRead.f))
    /\ [][/\ scState = "call" => Len(wire') = Len(wire) + 1
          /\ scState = "read" => (wire' = wire /\ tries' = tries + 1)]_vars

C2_Witness ==
    /\ scState = "ret"
    /\ tries = MaxTries
    /\ prefixMiss
    /\ lastRead.kind = "frame"
    /\ MatchesBoth(recv, sc)

\* C3: every call of the exchange moves the counter from c to c+1 for c in
\* 0..14 and from 15 to 0, whatever the write and the reads do; the counter
\* stays in 0..15.
C3_CounterWraps ==
    /\ [](global_count \in 0..15)
    /\ [][/\ scState = "call" => global_count' = (global_count + 1) % 16
          /\ scState # "call" => global_count' = global_count]_vars

C3_Witness ==
    /\ scState = "ret"
    /\ ~result.ok
    /\ tries = MaxTries
    /\ LastWritten.data[1] = 15
    /\ global_count = 0

\* What a transport call of the log is: an open, an 0x80 frame with its code,
\* a flash read with its address and size, or a subcommand with its argument.
Tag(ev) ==
    IF ev.kind = "open" THEN <<"open", 0, 0>>
    ELSE IF ev.data[0] = 128 THEN <<"x80", ev.data[1], 0>>
    ELSE IF ev.data[10] = 16
    THEN <<"spi", ev.data[11] + 256 * ev.data[12], ev.data[15]>>
    ELSE <<"sub", ev.data[10], ev.data[11]>>
Tags(w) == [i \in 1..Len(w) |-> Tag(w[i])]
AllWritesOk(w) == \A i \in 1..Len(w) : w[i].kind = "write" => w[i].ok
IsPrefix(a, b) == Len(a) <= Len(b) /\ \A i \in 1..Len(a) : a[i] = b[i]

StickTags(user, factory, deadzone, fromFactory) ==
    <<<<"spi", user, 9>>>>
    \o (IF fromFactory THEN <<<<"spi", factory, 9>>>> ELSE <<>>)
    \o <<<<"spi", deadzone, 16>>>>

AttachTags(lf, rf) ==
    <<<<"x80", 1, 0>>, <<"x80", 2, 0>>, <<"x80", 3, 0>>, <<"x80", 2, 0>>, <<"x80", 4, 0>>>>
    \o StickTags(32786, 24637, 24710, lf)
    \o StickTags(32797, 24646, 24728, rf)
    \o <<<<"sub", 64, 0>>, <<"sub", 72, 0>>, <<"sub", 48, 8>>, <<"sub", 3, 48>>>>

\* C4: in an attach that returned success, after the acknowledged probe come,
\* once each and in this order, the four handshake frames, the flash reads of
\* calibrate (left stick, then right stick), subcommand 0x40 with 0x00, 0x48
\* with 0x00, 0x30, and 0x03 with 0x30; telemetry is decoded only after
\* calibrate has completed.
C4_AttachOrder ==
    /\ pc = "stream" =>
        /\ \E lf \in BOOLEAN, rf \in BOOLEAN : Tags(wire) = AttachTags(lf, rf)
        /\ AllWritesOk(wire)
        /\ attachResult = Ok
        /\ calibrated = 1
    /\ (lstick_precal # Zeros(0) \/ rstick_precal # Zeros(0)) => calibrated = 1
    /\ calibrated <= 1

C4_Witness ==
    /\ pc = "stream"
    /\ hid = "reopened"
    /\ lstick_precal # Zeros(0)
    /\ Len(wire) = 15

ColdBootTags == <<<<"x80", 1, 0>>, <<"sub", 6, 4>>, <<"open", 0, 0>>, <<"sub", 3, 63>>>>
HandshakeStarted == \E i \in 1..Len(wire) : Tag(wire[i])[1] = "x80" /\ Tag(wire[i])[2] # 1

\* C5: after a probe read that succeeded with byte 0 other than 0x81 come the
\* reset subcommand (0x06, payload 0x04), the reopening of the transport and
\* the report-mode subcommand with mode 0x3f, in this order, and only then
\* the next probe; the handshake starts only after a probe reply with byte 0
\* equal to 0x81.
C5_ColdBootOrder ==
    /\ (Len(wire) >= 2 /\ buf0 # 129) => IsPrefix(Tags(wire), ColdBootTags)
    /\ (pc = "attach" /\ wire # <<>>) =>
            (Tags(wire) = ColdBootTags /\ AllWritesOk(wire))
    /\ (pc \notin {"attach", "probe_read"} /\ read.ok /\ buf0 # 129) =>
            /\ pc \in {"reset", "find_device", "simple_mode", "failed", "panic"}
            /\ (pc = "reset" /\ scState = "call") => (sc = 6 /\ send = FromSeq(<<4>>))
    /\ HandshakeStarted => (read.ok /\ buf0 = 129)

C5_Witness ==
    /\ pc = "probe_read"
    /\ hid = "reopened"
    /\ buf0 = 0

\* C6: a failure returned by any step of attach is what attach returns; no
\* frame is written after it and the streaming loop's read never runs.
C6_FailureAborts ==
    /\ [](~read.ok => (pc = "failed" /\ attachResult = read))
    /\ []((wire # <<>> /\ LastWritten.kind = "write" /\ ~LastWritten.ok) =>
            \/ pc = "failed" /\ ~attachResult.ok
            \/ scState = "ret" /\ ~result.ok
            \/ spiState = "ret" /\ ~spiRes.ok)
    /\ [](pc = "failed" =>
            /\ attachResult.msg \in ErrCodes
            /\ ~attachResult.ok
            /\ lstick_precal = Zeros(0)
            /\ rstick_precal = Zeros(0))
    /\ [][/\ (scState = "ret" /\ ~result.ok /\ spiState # "wait") =>
                (pc' = "failed" /\ attachResult' = result /\ wire' = wire)
          /\ (scState = "ret" /\ ~result.ok /\ spiState = "wait") =>
                (spiState' = "ret" /\ spiRes' = result /\ wire' = wire)
          /\ (spiState = "ret" /\ ~spiRes.ok) =>
                (pc' = "failed" /\ attachResult' = spiRes /\ wire' = wire)
          /\ pc # "failed"]_vars

C6_Witness ==
    /\ pc = "failed"
    /\ calibrated = 0
    /\ ldeadzone # 0
    /\ Len(wire) > 8
    /\ LastWritten.ok

\* C7: for every address and every size 0..0x1d, a read_spi whose exchange
\* succeeded returns, without faulting, exactly `size` bytes, equal to bytes
\* 20 .. 20+size-1 of the 48-byte reply buffer.
C7_FlashReadReturnsData ==
    /\ spiSize <= 29 => spiState # "panic"
    /\ (spiState = "ret" /\ spiRes.ok) =>
        /\ DOMAIN spiRes.val = 0..(spiSize - 1)
        /\ Size(recv) = 48
        /\ \A i \in 0..(spiSize - 1) : spiRes.val[i] = recv[20 + i]

\* Byte k of the two's-complement little-endian form of the 32-bit address n.
AddrByte(n, k) ==
    LET m == IF n >= 0 THEN n ELSE (n + 2147483647) + 1
        top == IF n >= 0 THEN 0 ELSE 128
    IN  IF k = 3 THEN (m \div 16777216) + top ELSE (m \div (256 ^ k)) % 256

OneExchange ==
    /\ Len(wire) <= 1
    /\ (spiState \in {"ret", "panic"} /\ spiSize <= 29) => Len(wire) = 1
    /\ spiSize > 29 => Len(wire) = 0
    /\ \A i \in 1..Len(wire) :
        /\ wire[i].data[0] = 1
        /\ wire[i].data[10] = 16
        /\ \A k \in 0..3 : wire[i].data[11 + k] = AddrByte(spiFrom, k)

\* C8 as stated: read_spi issues exactly one exchange with id 0x10 whose
\* payload is 7 bytes: the address (4 bytes, little-endian), 2 zero bytes,
\* the size.
C8_PayloadSevenBytes ==
    /\ OneExchange
    /\ scState \in {"call", "read", "ret"} => Size(send) = 7
    /\ \A i \in 1..Len(wire) :
        /\ wire[i].data[15] = 0
        /\ wire[i].data[16] = 0
        /\ wire[i].data[17] = spiSize
        /\ \A j \in 18..47 : wire[i].data[j] = 0

\* C8 amended: read_spi with a size up to 0x1d issues exactly one exchange
\* with id 0x10 whose payload is 5 bytes: the address (4 bytes,
\* little-endian), then the size; the rest of the frame is zero.
C8_PayloadFiveBytes ==
    /\ OneExchange
    /\ scState \in {"call", "read", "ret"} => Size(send) = 5
    /\ \A i \in 1..Len(wire) :
        /\ wire[i].data[15] = spiSize
        /\ \A j \in 16..47 : wire[i].data[j] = 0

C8_Witness ==
    /\ scState = "read"
    /\ Len(wire) = 1
    /\ spiFrom = -2
    /\ spiSize = 29
    /\ LastWritten.data[14] = 255

Present(b) == \E i \in 0..8 : b[i] \notin {0, 255}
FactoryAddresses == {24637, 24646}
FactoryAddress(left) == IF left THEN 24637 ELSE 24646

\* C9: a stick's calibration is decoded from the user block iff some byte of
\* it is neither 0x00 nor 0xFF; otherwise it is decoded from the factory
\* block; the factory address is read only then; an absent user block is no
\* failure.
C9_UserOrFactory ==
    /\ [](pc = "factory_cal" => (DOMAIN buf_ = 0..8 /\ ~Present(buf_)))
    /\ [][(pc = "user_cal" /\ spiState = "ret" /\ spiRes.ok) =>
            IF Present(spiRes.val)
            THEN /\ pc' = "deadzone"
                 /\ side => lstick_cal' = DecodeCal(lstick_cal, side, spiRes.val)
                 /\ ~side => rstick_cal' = DecodeCal(rstick_cal, side, spiRes.val)
            ELSE /\ pc' = "factory_cal"
                 /\ spiState' = "call"
                 /\ spiFrom' = FactoryAddress(side)
                 /\ spiSize' = 9
                 /\ UNCHANGED <<lstick_cal, rstick_cal>>]_vars
    /\ [][(pc = "factory_cal" /\ spiState = "ret" /\ spiRes.ok) =>
            /\ pc' = "deadzone"
            /\ side => lstick_cal' = DecodeCal(lstick_cal, side, spiRes.val)
            /\ ~side => rstick_cal' = DecodeCal(rstick_cal, side, spiRes.val)]_vars
    /\ [][(Len(wire') = Len(wire) + 1 /\ Tag(wire'[Len(wire')])[1] = "spi"
            /\ Tag(wire'[Len(wire')])[2] \in FactoryAddresses) =>
          (pc = "factory_cal" /\ ~Present(buf_)
            /\ Tag(wire'[Len(wire')])[2] = FactoryAddress(side))]_vars

C9_Witness ==
    /\ pc = "factory_cal"
    /\ ~side
    /\ scState = "read"
    /\ buf_[0] = 255
    /\ buf_[1] = 0

\* The six 12-bit values of a 9-byte block, in order.
SixValues(b) ==
    <<b[0] + 256 * (b[1] % 16), (b[1] \div 16) + 16 * b[2],
      b[3] + 256 * (b[4] % 16), (b[4] \div 16) + 16 * b[5],
      b[6] + 256 * (b[7] % 16), (b[7] \div 16) + 16 * b[8]>>

\* C10: with v0..v5 the six values of the chosen block, the left stick gets
\* (max-above-x, max-above-y, center-x, center-y, max-below-x, max-below-y)
\* = (v0..v5) and the right stick (center-x, center-y, max-below-x,
\* max-below-y, max-above-x, max-above-y) = (v0..v5).
C10_FieldOrder ==
    /\ [][(pc \in {"user_cal", "factory_cal"} /\ pc' = "deadzone") =>
            IF side
            THEN /\ <<MaxAboveX(lstick_cal'), MaxAboveY(lstick_cal'),
                      CenterX(lstick_cal'), CenterY(lstick_cal'),
                      MaxBelowX(lstick_cal'), MaxBelowY(lstick_cal')>>
                        = SixValues(spiRes.val)
                 /\ rstick_cal' = rstick_cal
            ELSE /\ <<CenterX(rstick_cal'), CenterY(rstick_cal'),
                      MaxBelowX(rstick_cal'), MaxBelowY(rstick_cal'),
                      MaxAboveX(rstick_cal'), MaxAboveY(rstick_cal')>>
                        = SixValues(spiRes.val)
                 /\ lstick_cal' = lstick_cal]_vars
    /\ [][pc' # "deadzone" => UNCHANGED <<lstick_cal, rstick_cal>>]_vars

C10_Witness ==
    /\ pc = "stream"
    /\ CenterX(rstick_cal) = 255
    /\ MaxAboveY(rstick_cal) = 2101
    /\ CenterX(lstick_cal) = 4042
    /\ MaxBelowY(lstick_cal) = 2101

\* C11: in every reachable state, whatever the device returns, the six
\* calibration fields of both sticks and both deadzone values are in 0..4095.
C11_TwelveBit ==
    /\ \A i \in 0..5 : lstick_cal[i] \in 0..4095 /\ rstick_cal[i] \in 0..4095
    /\ ldeadzone \in 0..4095
    /\ rdeadzone \in 0..4095

C11_Witness ==
    /\ pc = "stream"
    /\ CenterX(lstick_cal) = 4042
    /\ MaxAboveY(rstick_cal) = 4080
    /\ ldeadzone = 4042
    /\ rdeadzone = 3840

\* the comparison of line 61 with the mathematical square of the deadzone
InsideDeadzone(vals, cal, dz) ==
    LET dx == vals[0] - CenterX(cal)
        dy == vals[1] - CenterY(cal)
    IN  dx * dx + dy * dy < dz * dz

Centred(s) == s = FromSeq(<<F32Zero, F32Zero>>)
Sampled == pc = "stream" /\ Size(lstick) = 2

\* C12: for all 12-bit inputs center_sticks returns (0.0, 0.0) whenever
\* dx^2 + dy^2 is less than the (mathematical) square of the deadzone.
C12_DeadzoneSquare ==
    Sampled =>
        /\ InsideDeadzone(lstick_precal, lstick_cal, ldeadzone) => Centred(lstick)
        /\ InsideDeadzone(rstick_precal, rstick_cal, rdeadzone) => Centred(rstick)

\* the 64-byte frame 0x80, code, 0, ..., 0
X80Frame(code) == [i \in 0..63 |-> IF i = 0 THEN 128 ELSE IF i = 1 THEN code ELSE 0]
InHandshake == hsStep > 0
\* the handshake frames written so far: the writes after the probe
X80Written == IF pc = "x80_write" THEN hsStep - 1 ELSE hsStep

HandshakeFrames ==
    InHandshake =>
        /\ Len(wire) = 1 + X80Written
        /\ X80Written <= 4
        /\ \A k \in 1..X80Written :
            /\ wire[k + 1].kind = "write"
            /\ wire[k + 1].data = X80Frame(<<2, 3, 2, 4>>[k])
            /\ ~wire[k + 1].ok => k = X80Written /\ pc = "failed"
        /\ pc = "failed" => X80Written >= 1 /\ ~wire[Len(wire)].ok /\ IsErr(attachResult)
        /\ pc \in {"x80_write", "x80_read", "failed"}
        \* one read after each write, before the next write
        /\ Len(hsReads) = IF pc = "x80_write" THEN X80Written ELSE X80Written - 1
        /\ \A k \in 1..Len(hsReads) : hsReads[k].timeout = 100

\* C13: negotiation writes exactly four 64-byte frames 0x80, c, 0... with
\* c = 2, 3, 2, 4 in order, each write followed by one 100 ms timed read before
\* the next write; a failed write ends the negotiation with that failure and no
\* further frame; a failed read never changes the outcome.
C13_Handshake ==
    /\ []HandshakeFrames
    /\ [][pc = "x80_read" =>
            /\ attachResult' = attachResult
            /\ wire' = wire
            /\ IF hsStep < 4 THEN pc' = "x80_write" /\ Len(hsReads') = hsStep
               ELSE pc' = "user_cal" /\ Len(wire) = 5]_vars
    /\ [][pc = "x80_write" => Len(wire') = Len(wire) + 1]_vars

C13_Witness ==
    /\ pc = "x80_read"
    /\ hsStep = 4
    /\ \A k \in 1..3 : hsReads[k].out = <<"err", "timeout", "data">>[k]
    /\ wire[5].ok

\* C14: when all 10 timed reads of an exchange have been made, none of the
\* replies matches and the 10th read does not fail, the exchange returns
\* success and the receive buffer holds what the last read left in it.
C14_ExhaustedReturnsLast ==
    [][(/\ scState = "read"
        /\ tries = MaxTries - 1
        /\ lastRead'.kind # "err"
        /\ ~MatchesBoth(recv', sc))
       => /\ tries' = MaxTries
          /\ scState' = "ret"
          /\ result' = Ok
          /\ recv' = IF lastRead'.kind = "frame"
                     THEN [i \in DOMAIN recv |-> FrameByte(lastRead'.f, i)]
                     ELSE recv]_vars

C14_Witness ==
    /\ scState = "ret"
    /\ tries = MaxTries
    /\ lastRead.kind = "frame"
    /\ recv[0] = 48
    /\ recv[14] = 0
    /\ result = Ok
    /\ pc = "user_cal"

\* C15: an exchange that receives no matching reply within its budget of 10
\* reads is surfaced to the caller as a failure carrying a description.
C15_ExhaustedFails ==
    (scState = "ret" /\ tries = MaxTries /\ ~MatchesBoth(recv, sc))
        => (~result.ok /\ result.msg # "")

\* C16: a failed timed read inside a subcommand exchange is never followed by
\* a successful return of that same exchange.
C16_FailedReadFails ==
    [][(scState = "read" /\ lastRead.kind = "err")
       => ~(scState' = "ret" /\ result'.ok)]_vars

C18_CentreIsZero ==
    Sampled =>
        /\ (lstick_precal[0] = CenterX(lstick_cal) /\ lstick_precal[1] = CenterY(lstick_cal))
            => Centred(lstick)
        /\ (rstick_precal[0] = CenterX(rstick_cal) /\ rstick_precal[1] = CenterY(rstick_cal))
            => Centred(rstick)

\* the two values unpacked from bytes 3k..3k+2 of a calibration block, which
\* DecodeCal stores at positions 2k and 2k+1 of the stick's index order
CalPair(cal, left, k) ==
    <<cal[stick_indexes(left)[2 * k]], cal[stick_indexes(left)[2 * k + 1]]>>
BlockBytes(block, k) == <<block[3 * k], block[3 * k + 1], block[3 * k + 2]>>

CalRoundTrip ==
    (pc \in {"user_cal", "factory_cal"} /\ pc' = "deadzone") =>
        \A a \in RoundTripValues, b \in RoundTripValues, k \in 0..2 :
            BlockBytes(spiRes.val, k) = Pack(a, b) =>
                CalPair(IF side THEN lstick_cal' ELSE rstick_cal', side, k) = <<a, b>>

TelemetryRoundTrip ==
    Sampled =>
        \A a \in RoundTripValues, b \in RoundTripValues :
            /\ lstick_raw = Pack(a, b) => lstick_precal = FromSeq(<<a, b>>)
            /\ rstick_raw = Pack(a, b) => rstick_precal = FromSeq(<<a, b>>)

\* C19: for all 12-bit pairs (a, b), unpacking the three bytes
\* a & 0xFF, (a >> 8) | ((b & 0xF) << 4), b >> 4 gives back (a, b), both in
\* the calibration decoding and in the telemetry decoding.
C19_RoundTrip == []TelemetryRoundTrip /\ [][CalRoundTrip]_vars

C19_Witness ==
    /\ pc = "deadzone"
    /\ ~side
    /\ rstick_cal = FromSeq(<<2737, 4094, 2737, 4094, 4094, 2737>>)
    /\ buf_ = PackedBlock(2737, 4094)

IsSubcommandFrame(ev) == ev.kind = "write" /\ Size(ev.data) = REPORT_LEN
\* the subcommand frames written since the most recent probe, in order
SubcommandFrames == SelectSeq(wire, IsSubcommandFrame)

Sequenced ==
    /\ \A k \in 1..Len(SubcommandFrames) :
        /\ SubcommandFrames[k].data[0] = 1
        /\ SubcommandFrames[k].data[1] = (k - 1) % 16
    /\ pc \in {"probe_read", "x80_write", "x80_read"} => global_count = 0
    /\ wire # <<>> => wire[1].data = ProbeFrame

\* C20: each attach probe resets the sequence counter to 0, so the k-th
\* subcommand frame written after the most recent probe carries (k-1) mod 16
\* in byte 1, with byte 0 = 0x01 and byte 10 = the subcommand id; the
\* handshake frames in between do not change the counter.
C20_SequencePerProbe ==
    /\ []Sequenced
    /\ [][pc = "attach" => global_count' = 0 /\ Len(wire') = 1]_vars
    /\ [][scState = "call" => wire'[Len(wire')].data[10] = sc]_vars
    /\ [][(pc = "x80_write" \/ pc = "x80_read") => global_count' = global_count]_vars

C20_Witness ==
    /\ pc = "stream"
    /\ hid = "reopened"
    /\ Len(SubcommandFrames) = 10
    /\ SubcommandFrames[10].data[1] = 9
    /\ SubcommandFrames[10].data[10] = 3
    /\ global_count = 10
====
